---- MODULE Spec2Model ----
(***************************************************************************)
(* Model of the Sesame CSM-1B voice generator: the synthesis client        *)
(* (SesameTTS.generate_speech), the cloned-voice synthesis                 *)
(* (VoiceCloning.generate_speech_with_voice), the voice profile store      *)
(* (VoiceCloning.extract_voice, list_available_voices), the construction   *)
(* of the two client objects and the UI handlers of app.py that call       *)
(* them.  A call is one invocation of an operation; calls run in separate  *)
(* threads and share the wall clock, the output directory and the          *)
(* voice_models directory.                                                 *)
(***************************************************************************)
EXTENDS Integers, Sequences, FiniteSets, TLC

(* ------------------------------ bounds --------------------------------- *)

\* largest max_retries a caller passes
MaxRetriesBound == 3

\* the wall clock runs over the seconds 0..MaxClock
MaxClock == 1

\* the longest response body, in bytes
MaxBody == 2

(* --------------------------- program constants ------------------------- *)

\* default of the max_retries parameter
DefaultMaxRetries == 3

\* base of the exponential backoff
BackoffBase == 2

(* ------------------------------ inputs --------------------------------- *)

\* the synthesis calls of one behaviour
Calls == {1, 2}

\* the retry limits of two calls that run together
PairRetries == {1, 2}

\* values of max_retries around zero, for calls that are given no attempt
LowRetries == {-1, 0, 1, 2}

\* the texts a caller passes: the empty text and a non-empty one
Texts == {"", "hi"}

\* the names a caller passes for a cloned voice
VoiceNames == {"alice"}

\* the audio samples a caller passes to extract_voice
AudioFiles == {"s1.wav"}

\* the extract_voice calls of one behaviour
Jobs == {1, 2}

\* the names extract_voice is called with: the empty name, a plain name and a
\* name that contains ".json"
StoreNames == {"", "alice", "alice.json"}

\* the audio files on disk: one with a short path and one with a longer path
AudioOnDisk == {"s1.wav", "sample2.wav"}

\* the audio_file_path of the extract_voice calls: the files on disk and a path
\* where no file is
StoreAudioFiles == AudioOnDisk \cup {"gone.wav"}

\* the credentials: the empty string (or None) and a token
Tokens == {"", "hf_token"}

\* response.content of a 200 response: a sequence of at most MaxBody bytes
Bodies == {<<1, 2>>, <<3>>}

\* the status codes the endpoint answers with
StatusCodes == {200, 503, 404}

\* the voice name of a call that has none
None == "None"

\* a path that does not exist on disk
NoFile == [exists |-> FALSE, bytes |-> <<>>]

\* a file holding the bytes b
File(b) == [exists |-> TRUE, bytes |-> b]

\* the value None of a variable that holds an output path
NonePath == [voice |-> None, timestamp |-> -1]

\* a response variable not yet assigned
NoResponse == [status_code |-> 0, content |-> <<>>]

\* the parameters extract_voice gives a voice model
DefaultParameters == [pitch |-> 0, timbre |-> 0, pace |-> 1]

\* the text json.dump writes is a sequence of blocks of equal size; a block is
\* the n-th block of the value s of key k, or the block of the parameters p
Block(k, s, n, p) == [k |-> k, s |-> s, n |-> n, p |-> p]

\* the number of blocks the path of an audio sample takes in the dumped text
SourceBlocks(a) == IF a = "s1.wav" THEN 1 ELSE 2

\* json.dump(voice_model, f, indent=2): the text of a voice model
Dump(model) ==
  <<Block("name", model.name, 0, DefaultParameters),
    Block("created", "", model.created, DefaultParameters)>>
  \o [i \in 1..SourceBlocks(model.source_file) |->
        Block("source_file", model.source_file, i, DefaultParameters)]
  \o (IF "parameters" \in DOMAIN model
        THEN <<Block("parameters", "", 0, model.parameters)>>
        ELSE <<>>)

\* <name>.json in voice_models: absent, a file holding the text of a dumped
\* model, or a file left empty by a dump that raised
NoVoiceFile == NoFile
Truncated == File(<<>>)
VoiceFile(model) == File(Dump(model))

VARIABLES
  now,          \* time.time(), in whole seconds
  files,        \* the output directory: output path -> bytes of the file, or NoFile
  voice_dir,    \* the voice_models directory: voice name -> content of <name>.json
  pc,           \* per call: the place the call is at
  op,           \* per call: "tts" (generate_speech) or "clone" (generate_speech_with_voice)
  text,         \* per call: the text parameter
  voice_name,   \* per call: the voice_name parameter (None for "tts")
  max_retries,  \* per call: the max_retries parameter
  output_path,  \* per call: the local output_path
  retries,      \* per call: the local retries
  response,     \* per call: the local response, [status_code, content]
  result,       \* per call: the value returned (None, or an output path)
  requests,     \* per call: number of requests.post calls made
  sleeps,       \* per call: the arguments of the time.sleep calls made, in order
  hist,         \* per call: the outcome of each attempt, in order: "200", "503",
                \* "other" (another status), "exc" (the request raised), "ioerr"
                \* (200, and writing the file raised)
  found,        \* per call: os.path.exists(voice_file_path), for "clone"
  payload,      \* per call: the local payload, the json of every request
  ui,           \* per call: the UI handler that made the call: where it is ("none"
                \* when the call was not made by a handler, "calling",
                \* "rendered") and how many times it has called the client
  xpc,          \* per extract_voice call: the place the call is at
  xname,        \* per extract_voice call: the voice_name parameter
  xaudio,       \* per extract_voice call: the audio_file_path parameter
  xmodel,       \* per extract_voice call: the local voice_model
  xresult,      \* per extract_voice call: the value returned
  xrequests,    \* per extract_voice call: number of requests.post calls made
  listing,      \* the list the last list_available_voices call returned
  lpc,          \* the last list_available_voices call: "idle" (none yet),
                \* "returned" or "raised"
  refresh,      \* what the last app.refresh_voices call gave the UI
  credential,   \* [arg, env]: the api_token argument and HF_API_TOKEN
  boot          \* the client objects: "start" (not constructed yet), "ready"
                \* (constructed), "exit" (construction raised ValueError)

callvars == <<pc, op, text, voice_name, max_retries, output_path, retries,
              response, result, requests, sleeps, hist, found, payload, ui>>

storevars == <<xpc, xname, xaudio, xmodel, xresult, xrequests, listing, lpc, refresh>>

bootvars == <<credential, boot>>

othervars == <<storevars, bootvars>>

vars == <<now, files, voice_dir, callvars, othervars>>

(* ------------------------------ helpers -------------------------------- *)

\* faulty variant: the operands of ** are swapped
WaitTimeSwapped(r) == r ^ BackoffBase

\* faulty variant: the wait is computed before retries is incremented
WaitTimeBeforeIncrement(r) == BackoffBase ^ (r - 1)

\* wait_time = 2 ** retries
WaitTime(r) == BackoffBase ^ r

\* the logs of a call (requests, sleeps, hist) are kept up to LogCap entries,
\* more than a call makes
LogCap == (IF MaxRetriesBound > DefaultMaxRetries THEN MaxRetriesBound
           ELSE DefaultMaxRetries) + 2

Log(l, e) == IF Len(l) < LogCap THEN Append(l, e) ELSE l

Count(n) == IF n < LogCap THEN n + 1 ELSE n

\* the log of attempts, its last entry replaced by e
Relog(l, e) == IF l = <<>> THEN l ELSE [l EXCEPT ![Len(l)] = e]

\* os.path.join(output_dir, f"output_{timestamp}.wav") and
\* os.path.join(output_dir, f"output_{voice_name}_{timestamp}.wav"):
\* the path is made of the voice name (None for generate_speech) and the timestamp
OutputPath(v, ts) == [voice |-> v, timestamp |-> ts]

Paths == {OutputPath(v, ts) : v \in VoiceNames \cup {None}, ts \in 0..MaxClock}

\* while retries < max_retries: the place the call goes to at the loop test;
\* "Failed" is the return None that follows the loop
WhileTest(r, m) == IF r < m THEN "request" ELSE "Failed"

\* faulty variant: the loop goes round before the 503 is counted
RetriesAfter503Skipped(r) == r

\* the retry counter after a 503 response (retries += 1)
RetriesAfter503(r) == r + 1

\* faulty variant: an exception does not count as a retry
RetriesNotCounted(r) == r

\* the retry counter after an exception (retries += 1)
RetriesAfterException(r) == r + 1

\* faulty variant: the loop goes round without the sleep
AfterFailureNoSleep(r, m) == IF r < m THEN "request" ELSE "Failed"

\* faulty variant: the call gives up one attempt early
AfterFailureEarly(r, m) == IF r + 1 < m THEN "sleep" ELSE "Failed"

\* if retries < max_retries: sleep and go round the loop; else: return None
AfterFailure(r, m) == IF r < m THEN "sleep" ELSE "Failed"

\* the first n bytes of a byte string
Prefix(b, n) == SubSeq(b, 1, n)

\* f.write(data) on a file opened by this call, at the handle's offset 0:
\* the bytes replace the start of what the file holds
WriteAt(old, data) ==
  File(data \o SubSeq(old.bytes, Len(data) + 1, Len(old.bytes)))

\* the entry of the attempt log for a response of status s
StatusEvent(s) == CASE s = 200 -> "200" [] s = 503 -> "503" [] OTHER -> "other"

\* the voice model extract_voice builds
VoiceModel(v, a, t) ==
  [name |-> v, created |-> t, source_file |-> a,
   parameters |-> DefaultParameters]

\* the local voice_model of an extract_voice call that has not built it
NoModel == VoiceModel(None, None, -1)

\* self.api_token = api_token or os.getenv('HF_API_TOKEN')
ApiToken(cred) == IF cred.arg # "" THEN cred.arg ELSE cred.env

\* faulty variant: the token is not tested
ConstructionUnchecked(token) == "ready"

\* if not self.api_token: raise ValueError, which ends the program (exit(1) in
\* app.py); the object exists otherwise
Construction(token) == IF token = "" THEN "exit" ELSE "ready"

\* the message a UI handler shows for a call of operation o with the text t
\* and the voice name v, the client having returned res
AppMessage(o, t, v, res) ==
  IF t = "" THEN "Please enter some text to convert to speech."
  ELSE IF o = "clone" /\ v = "" THEN "Please select a cloned voice."
  ELSE IF res # NonePath THEN "Speech generated successfully!"
  ELSE IF o = "clone"
    THEN "Failed to generate speech with the cloned voice. The API may be unavailable."
  ELSE "The Hugging Face API is currently unavailable. Please try again later."

\* the text of a voice model has at most MaxBlocks blocks
MaxBlocks == Len(Dump(VoiceModel(None, None, 0)))

\* the file name f"{voice_name}.json", as the parts it is made of
NameParts(v) ==
  CASE v = "" -> <<>>
    [] v = "alice" -> <<"alice">>
    [] v = "alice.json" -> <<"alice", ".json">>

\* the string made of the parts p
Joined(p) == CHOOSE v \in StoreNames : NameParts(v) = p

VoiceFileName(v) == NameParts(v) \o <<".json">>

\* file.endswith(suffix)
EndsWith(file, suffix) == file # <<>> /\ file[Len(file)] = suffix

\* file.replace(old, ""): every occurrence of old is removed
Replace(file, old) == SelectSeq(file, LAMBDA part : part # old)

\* os.listdir(voice_dir): the files of the directory, in the order of the listing
DirOrder == <<"", "alice", "alice.json">>

\* list_available_voices: for each file of the directory that ends with
\* ".json", the file name without ".json"
RECURSIVE ListFrom(_, _)
ListFrom(dir, i) ==
  IF i > Len(DirOrder) THEN <<>>
  ELSE LET file == VoiceFileName(DirOrder[i]) IN
         (IF dir[DirOrder[i]].exists /\ EndsWith(file, ".json")
            THEN <<Joined(Replace(file, ".json"))>>
            ELSE <<>>)
         \o ListFrom(dir, i + 1)

ListVoices(dir) == ListFrom(dir, 1)

\* if not os.path.exists(audio_file_path): return False
SourceCheck(e) == IF e THEN "read" ELSE "done"

\* faulty variant: the except branch reports success
ExceptResultTrue == TRUE

\* the value the except branch of extract_voice returns
ExceptResult == FALSE

\* the voice models extract_voice can build
Models ==
  {VoiceModel(v, a, t) : v \in StoreNames, a \in AudioOnDisk, t \in 0..MaxClock}

\* values of pitch, timbre and pace found in a profile that extract_voice did
\* not write
StoredValues == {2, 3}

\* the "parameters" mappings of such profiles: any of the three keys missing
PartialParameters ==
  UNION {[K -> StoredValues] : K \in SUBSET {"pitch", "timbre", "pace"}}

\* profiles in voice_models that extract_voice did not write: "parameters"
\* with keys missing, or no "parameters" at all
OlderModels ==
  {[name |-> "alice", created |-> 0, source_file |-> "s1.wav", parameters |-> p] :
     p \in PartialParameters}
  \cup {[name |-> "alice", created |-> 0, source_file |-> "s1.wav"]}

\* json.load(f) returns a model: the file holds the whole text of one
Loadable(f) == \E model \in Models \cup OlderModels : f.bytes = Dump(model)

\* faulty variant: the voice model file is opened in a mode that empties it
OpenForReadTruncates(f) == File(<<>>)

\* open(voice_file_path, 'r') leaves the file as it is
OpenForRead(f) == f

\* voice_model = json.load(f)
Load(f) == CHOOSE model \in Models \cup OlderModels : f.bytes = Dump(model)

\* dict.get(k, default)
Get(d, k, default) == IF k \in DOMAIN d THEN d[k] ELSE default

\* faulty variant: pace defaults to 0 like the other two
PayloadDefaultZero(k) == 0

\* the defaults of the three .get calls that fill the payload
PayloadDefault(k) == IF k = "pace" THEN 1 ELSE 0

\* no payload built yet
NoPayload == [inputs |-> None, parameters |-> <<>>]

\* the payload of generate_speech called without a voice_preset
TtsPayload(t) == [inputs |-> t, parameters |-> <<>>]

\* the payload of generate_speech_with_voice, from the loaded voice_model
ClonePayload(t, v, model) ==
  [inputs |-> t,
   parameters |->
     <<[voice_preset |-> v,
        pitch |-> Get(Get(model, "parameters", <<>>), "pitch", PayloadDefault("pitch")),
        timbre |-> Get(Get(model, "parameters", <<>>), "timbre", PayloadDefault("timbre")),
        pace |-> Get(Get(model, "parameters", <<>>), "pace", PayloadDefault("pace"))]>>]

\* a call that no UI handler made
NoHandler == [at |-> "none", calls |-> 0]

\* refresh_voices has not been called
NoRefresh == [status |-> "idle", choices |-> <<>>, value |-> None, message |-> ""]

\* faulty variant: the voice model file is neither looked for nor loaded
CloneEntryUnchecked(f, m) == WhileTest(0, m)

\* faulty variant: the loop body runs once before the first loop test
CloneEntryDoWhile(f, m) ==
  IF ~f.exists THEN "Failed"
  ELSE IF ~Loadable(f) THEN "Failed"
  ELSE "request"

\* generate_speech_with_voice before its loop: return None when the voice
\* model file does not exist, return None when it does not load, else go to
\* the first loop test
CloneEntry(f, m) ==
  IF ~f.exists THEN "Failed"
  ELSE IF ~Loadable(f) THEN "Failed"
  ELSE IF 0 < m THEN "request" ELSE "Failed"

\* faulty variant: the 503 branch of generate_speech_with_voice does not
\* count the attempt
CloneStatusBranchUncounted(s, r, m) ==
  IF s = 503 THEN [retries |-> r, pc |-> IF r < m THEN "sleep" ELSE "Failed"]
  ELSE IF s # 200 THEN [retries |-> r, pc |-> "Failed"]
  ELSE [retries |-> r, pc |-> "open"]

\* the loop of generate_speech_with_voice: the place a call goes to with a
\* response of status s, and its retries then
CloneStatusBranch(s, r, m) ==
  IF s = 503 THEN [retries |-> r + 1, pc |-> IF r + 1 < m THEN "sleep" ELSE "Failed"]
  ELSE IF s # 200 THEN [retries |-> r, pc |-> "Failed"]
  ELSE [retries |-> r, pc |-> "open"]

\* the loop of generate_speech_with_voice: its except branch
CloneExceptBranch(r, m) ==
  [retries |-> r + 1, pc |-> IF r + 1 < m THEN "sleep" ELSE "Failed"]

\* the loop of generate_speech_with_voice: wait_time = 2 ** retries
CloneWaitTime(r) == BackoffBase ^ r

\* the loop of generate_speech_with_voice: while retries < max_retries
CloneWhileTest(r, m) == IF r < m THEN "request" ELSE "Failed"

\* the except branch of the loop of generate_speech
ExceptBranch(r, m) ==
  [retries |-> RetriesAfterException(r),
   pc |-> AfterFailure(RetriesAfterException(r), m)]

Terminal == {"Succeeded", "Failed"}

(* ------------------------------- Init ---------------------------------- *)

\* no call made yet, the output directory empty
Idle ==
  /\ now = 0
  /\ files = [p \in Paths |-> NoFile]
  /\ pc = [c \in Calls |-> "idle"]
  /\ op = [c \in Calls |-> None]
  /\ text = [c \in Calls |-> None]
  /\ voice_name = [c \in Calls |-> None]
  /\ max_retries = [c \in Calls |-> 0]
  /\ output_path = [c \in Calls |-> NonePath]
  /\ retries = [c \in Calls |-> 0]
  /\ response = [c \in Calls |-> NoResponse]
  /\ result = [c \in Calls |-> NonePath]
  /\ requests = [c \in Calls |-> 0]
  /\ sleeps = [c \in Calls |-> <<>>]
  /\ hist = [c \in Calls |-> <<>>]
  /\ found = [c \in Calls |-> FALSE]
  /\ payload = [c \in Calls |-> NoPayload]
  /\ ui = [c \in Calls |-> NoHandler]
  /\ xpc = [j \in Jobs |-> "idle"]
  /\ xname = [j \in Jobs |-> None]
  /\ xaudio = [j \in Jobs |-> None]
  /\ xmodel = [j \in Jobs |-> NoModel]
  /\ xresult = [j \in Jobs |-> FALSE]
  /\ xrequests = [j \in Jobs |-> 0]
  /\ listing = <<>>
  /\ lpc = "idle"
  /\ refresh = NoRefresh

\* no call made yet, the output directory and the voice_models directory empty
Fresh ==
  /\ voice_dir = [v \in StoreNames |-> NoVoiceFile]
  /\ Idle

\* the client objects are constructed, the token taken from the environment
Init ==
  /\ Fresh
  /\ credential = [arg |-> "", env |-> "hf_token"]
  /\ boot = "ready"

\* the client objects are constructed and voice_models holds one profile,
\* written by extract_voice or not
InitPayload ==
  /\ voice_dir \in {[v \in StoreNames |-> IF v = "alice" THEN VoiceFile(model)
                                                      ELSE NoVoiceFile] :
                      model \in OlderModels \cup {VoiceModel("alice", "s1.wav", 0)}}
  /\ Idle
  /\ credential = [arg |-> "", env |-> "hf_token"]
  /\ boot = "ready"

\* the client objects are constructed and voice_models holds the profile of
\* alice that an extract_voice call saved
InitReader ==
  /\ voice_dir = [v \in StoreNames |->
                    IF v = "alice" THEN VoiceFile(VoiceModel("alice", "s1.wav", 0))
                    ELSE NoVoiceFile]
  /\ Idle
  /\ credential = [arg |-> "", env |-> "hf_token"]
  /\ boot = "ready"

\* before the client objects are constructed, with any credentials
InitBoot ==
  /\ Fresh
  /\ credential \in [arg : Tokens, env : Tokens]
  /\ boot = "start"

(* ------------------------------ actions -------------------------------- *)

\* the wall clock passes to the next second
Tick ==
  /\ now < MaxClock
  /\ now' = now + 1
  /\ UNCHANGED <<files, voice_dir, callvars, othervars>>

\* the entry of a synthesis call up to the first loop test: the parameters are
\* bound, the output path is taken from the clock, retries = 0
Enter(c, o, t, v, m, path, first) ==
  /\ op' = [op EXCEPT ![c] = o]
  /\ text' = [text EXCEPT ![c] = t]
  /\ voice_name' = [voice_name EXCEPT ![c] = v]
  /\ max_retries' = [max_retries EXCEPT ![c] = m]
  /\ output_path' = [output_path EXCEPT ![c] = path]
  /\ retries' = [retries EXCEPT ![c] = 0]
  /\ pc' = [pc EXCEPT ![c] = first]
  /\ UNCHANGED <<now, files, response, result, requests, sleeps, hist, othervars>>

\* SesameTTS.generate_speech(text, max_retries=m), up to the first loop test
GenerateSpeech(c, t, m) ==
  /\ pc[c] = "idle"
  /\ Enter(c, "tts", t, None, m, OutputPath(None, now), WhileTest(0, m))
  /\ payload' = [payload EXCEPT ![c] = TtsPayload(t)]
  /\ UNCHANGED <<voice_dir, found>>

\* VoiceCloning.generate_speech_with_voice(text, voice_name, max_retries=m), up to
\* the first loop test: return None when the voice model file does not exist or
\* does not load
GenerateSpeechWithVoice(c, t, v, m) ==
  /\ pc[c] = "idle"
  /\ found' = [found EXCEPT ![c] = voice_dir[v].exists]
  /\ voice_dir' = [voice_dir EXCEPT ![v] = IF @.exists THEN OpenForRead(@) ELSE @]
  /\ IF voice_dir[v].exists /\ Loadable(voice_dir[v])
       THEN /\ Enter(c, "clone", t, v, m, OutputPath(v, now), CloneEntry(voice_dir[v], m))
            /\ payload' = [payload EXCEPT ![c] = ClonePayload(t, v, Load(voice_dir[v]))]
       ELSE /\ Enter(c, "clone", t, v, m, NonePath, CloneEntry(voice_dir[v], m))
            /\ UNCHANGED payload

\* app.generate_speech(text): the handler returns at once for an empty text and
\* calls tts_client.generate_speech(text) with the default max_retries otherwise
AppGenerateSpeech(c, t) ==
  /\ pc[c] = "idle"
  /\ IF t = ""
       THEN /\ Enter(c, "tts", t, None, DefaultMaxRetries, NonePath, "Failed")
            /\ ui' = [ui EXCEPT ![c] = [at |-> "rendered", calls |-> 0]]
            /\ UNCHANGED <<voice_dir, found, payload>>
       ELSE /\ GenerateSpeech(c, t, DefaultMaxRetries)
            /\ ui' = [ui EXCEPT ![c] = [at |-> "calling", calls |-> 1]]

\* app.generate_speech_with_cloned_voice(text, voice_name)
AppGenerateSpeechWithClonedVoice(c, t, v) ==
  /\ pc[c] = "idle"
  /\ IF t = ""
       THEN /\ Enter(c, "clone", t, v, DefaultMaxRetries, NonePath, "Failed")
            /\ ui' = [ui EXCEPT ![c] = [at |-> "rendered", calls |-> 0]]
            /\ UNCHANGED <<voice_dir, found, payload>>
       ELSE /\ GenerateSpeechWithVoice(c, t, v, DefaultMaxRetries)
            /\ ui' = [ui EXCEPT ![c] = [at |-> "calling", calls |-> 1]]

\* faulty variant: the handler calls the client once more when it got None
AppAfterCallRetry(res, n) ==
  IF res = NonePath /\ n < 2 THEN [at |-> "calling", calls |-> n + 1]
  ELSE [at |-> "rendered", calls |-> n]

\* if result: return result, message, "success"; else: return None, message,
\* "error": whatever the client returned, the handler returns to the UI
AppAfterCall(res, n) == [at |-> "rendered", calls |-> n]

\* the client call made by a UI handler has returned: the handler returns
\* its tuple, which the UI renders
AppReturn(c) ==
  /\ ui[c].at = "calling"
  /\ pc[c] \in Terminal
  /\ ui' = [ui EXCEPT ![c] = AppAfterCall(result[c], ui[c].calls)]
  /\ UNCHANGED <<now, files, voice_dir, pc, op, text, voice_name, max_retries,
                 output_path, retries, response, result, requests, sleeps, hist,
                 found, payload, othervars>>

\* the except branch of the loop the call is in: retries += 1, then sleep or
\* return None
OnException(c) ==
  LET branch == IF op[c] = "clone" THEN CloneExceptBranch(retries[c], max_retries[c])
                ELSE ExceptBranch(retries[c], max_retries[c])
  IN /\ retries' = [retries EXCEPT ![c] = branch.retries]
     /\ pc' = [pc EXCEPT ![c] = branch.pc]

\* requests.post raises
PostRaises(c) ==
  /\ pc[c] = "request"
  /\ requests' = [requests EXCEPT ![c] = Count(requests[c])]
  /\ hist' = [hist EXCEPT ![c] = Log(hist[c], "exc")]
  /\ OnException(c)
  /\ UNCHANGED <<now, files, voice_dir, found, payload, ui, op, text, voice_name, max_retries,
                 output_path, response, result, sleeps,
                 othervars>>

\* faulty variant: every status but 200 is retried
StatusBranchRetryAny(s, r, m) ==
  IF s # 200 THEN [retries |-> RetriesAfter503(r), pc |-> AfterFailure(RetriesAfter503(r), m)]
  ELSE [retries |-> r, pc |-> "open"]

\* the place a call goes to with a response of status s, and its retries then
StatusBranch(s, r, m) ==
  IF s = 503 THEN [retries |-> RetriesAfter503(r), pc |-> AfterFailure(RetriesAfter503(r), m)]
  ELSE IF s # 200 THEN [retries |-> r, pc |-> "Failed"]
  ELSE [retries |-> r, pc |-> "open"]

\* requests.post returns a response with status s and content b, in the loop
\* the call is in
PostReturns(c, s, b) ==
  /\ pc[c] = "request"
  /\ requests' = [requests EXCEPT ![c] = Count(requests[c])]
  /\ response' = [response EXCEPT ![c] = [status_code |-> s, content |-> b]]
  /\ LET branch == IF op[c] = "clone"
                     THEN CloneStatusBranch(s, retries[c], max_retries[c])
                     ELSE StatusBranch(s, retries[c], max_retries[c])
     IN /\ retries' = [retries EXCEPT ![c] = branch.retries]
        /\ pc' = [pc EXCEPT ![c] = branch.pc]
  /\ hist' = [hist EXCEPT ![c] = Log(hist[c], StatusEvent(s))]
  /\ UNCHANGED <<now, files, voice_dir, found, payload, ui, op, text, voice_name, max_retries,
                 output_path, result, sleeps,
                 othervars>>

\* time.sleep(wait_time), then the loop test
Sleep(c) ==
  /\ pc[c] = "sleep"
  /\ sleeps' = [sleeps EXCEPT ![c] =
        Log(sleeps[c], IF op[c] = "clone" THEN CloneWaitTime(retries[c])
                       ELSE WaitTime(retries[c]))]
  /\ pc' = [pc EXCEPT ![c] = IF op[c] = "clone"
                               THEN CloneWhileTest(retries[c], max_retries[c])
                               ELSE WhileTest(retries[c], max_retries[c])]
  /\ UNCHANGED <<now, files, voice_dir, found, payload, ui, op, text, voice_name, max_retries,
                 output_path, retries, response, result, requests, hist,
                 othervars>>

\* open(output_path, "wb") creates the file or truncates it
OpenFile(c) ==
  /\ pc[c] = "open"
  /\ files' = [files EXCEPT ![output_path[c]] = File(<<>>)]
  /\ pc' = [pc EXCEPT ![c] = "write"]
  /\ UNCHANGED <<now, voice_dir, found, payload, ui, op, text, voice_name, max_retries, output_path,
                 retries, response, result, requests, sleeps, hist,
                 othervars>>

\* open(output_path, "wb") raises
OpenRaises(c) ==
  /\ pc[c] = "open"
  /\ hist' = [hist EXCEPT ![c] = Relog(hist[c], "ioerr")]
  /\ OnException(c)
  /\ UNCHANGED <<now, files, voice_dir, found, payload, ui, op, text, voice_name, max_retries,
                 output_path, response, result, requests, sleeps,
                 othervars>>

\* what the call returns once f.write(response.content) has returned
ReturnValue(path) == path

\* f.write(response.content) writes every byte; return output_path
WriteFile(c) ==
  /\ pc[c] = "write"
  /\ files' = [files EXCEPT ![output_path[c]] = WriteAt(@, response[c].content)]
  /\ result' = [result EXCEPT ![c] = ReturnValue(output_path[c])]
  /\ pc' = [pc EXCEPT ![c] = "Succeeded"]
  /\ UNCHANGED <<now, voice_dir, found, payload, ui, op, text, voice_name, max_retries, output_path,
                 retries, response, requests, sleeps, hist,
                 othervars>>

\* f.write(response.content) raises after n bytes
WriteRaises(c, n) ==
  /\ pc[c] = "write"
  /\ n < Len(response[c].content)
  /\ files' = [files EXCEPT ![output_path[c]] = WriteAt(@, Prefix(response[c].content, n))]
  /\ hist' = [hist EXCEPT ![c] = Relog(hist[c], "ioerr")]
  /\ OnException(c)
  /\ UNCHANGED <<now, voice_dir, found, payload, ui, op, text, voice_name, max_retries, output_path,
                 response, result, requests, sleeps,
                 othervars>>

\* VoiceCloning.extract_voice(audio_file_path, voice_name): the voice model file
\* is opened for writing (truncated) and the model is dumped into it; an
\* exception on the way leaves what was written
ExtractVoice(a, v, outcome) ==
  /\ voice_dir' = [voice_dir EXCEPT ![v] =
        CASE outcome = "saved" -> VoiceFile(VoiceModel(v, a, now))
          [] outcome = "dump_raises" -> Truncated
          [] OTHER -> @]
  /\ UNCHANGED <<now, files, callvars, othervars>>

\* extract_voice returns at once when os.path.exists(audio_file_path) is false,
\* and enters its try block otherwise
ExtractVoiceCall(j, a, v) ==
  /\ xpc[j] = "idle"
  /\ xname' = [xname EXCEPT ![j] = v]
  /\ xaudio' = [xaudio EXCEPT ![j] = a]
  /\ xpc' = [xpc EXCEPT ![j] = SourceCheck(a \in AudioOnDisk)]
  /\ xresult' = [xresult EXCEPT ![j] = FALSE]
  /\ UNCHANGED <<now, files, voice_dir, callvars, xmodel, listing, lpc, xrequests, refresh,
                 bootvars>>

\* app.clone_voice(audio_file, voice_name): the handler returns a message at
\* once when no file was uploaded or the name is empty, and calls extract_voice
\* otherwise
AppCloneVoice(j, a, v) ==
  /\ xpc[j] = "idle"
  /\ IF a = None \/ v = ""
       THEN /\ xname' = [xname EXCEPT ![j] = v]
            /\ xaudio' = [xaudio EXCEPT ![j] = a]
            /\ xpc' = [xpc EXCEPT ![j] = "done"]
            /\ xresult' = [xresult EXCEPT ![j] = FALSE]
            /\ UNCHANGED <<now, files, voice_dir, callvars, xmodel, listing, lpc, xrequests, refresh,
                 bootvars>>
       ELSE ExtractVoiceCall(j, a, v)

\* the except branch of extract_voice: return False
ExtractRaises(j) ==
  /\ xpc' = [xpc EXCEPT ![j] = "done"]
  /\ xresult' = [xresult EXCEPT ![j] = ExceptResult]

\* faulty variant: the payload built from the audio is posted to the endpoint
ExtractPostsSent(n) == n + 1

\* the payload built from the audio is left unused: extract_voice has no
\* requests.post
ExtractPosts(n) == n

\* the audio file is read and the voice model is built, created = time.time()
ReadAudio(j) ==
  /\ xpc[j] = "read"
  /\ xaudio[j] \in AudioOnDisk
  /\ xmodel' = [xmodel EXCEPT ![j] = VoiceModel(xname[j], xaudio[j], now)]
  /\ xpc' = [xpc EXCEPT ![j] = "open"]
  /\ xrequests' = [xrequests EXCEPT ![j] = ExtractPosts(@)]
  /\ UNCHANGED <<now, files, voice_dir, callvars, xname, xaudio, xresult, listing,
                 lpc, refresh, bootvars>>

\* open(audio_file_path, 'rb') or f.read() raises
ReadAudioRaises(j) ==
  /\ xpc[j] = "read"
  /\ ExtractRaises(j)
  /\ UNCHANGED <<now, files, voice_dir, callvars, xname, xaudio, xmodel, listing,
                 lpc, xrequests, refresh,
                 bootvars>>

\* faulty variant: the file is opened for writing without being emptied
OpenKeeps(f) == File(f.bytes)

\* open(voice_file_path, 'w') creates the file or empties the one that exists
OpenTruncate(f) == File(<<>>)

\* open(voice_file_path, 'w') creates the file or truncates it
OpenVoiceFile(j) ==
  /\ xpc[j] = "open"
  /\ voice_dir' = [voice_dir EXCEPT ![xname[j]] = OpenTruncate(@)]
  /\ xpc' = [xpc EXCEPT ![j] = "dump"]
  /\ UNCHANGED <<now, files, callvars, xname, xaudio, xmodel, xresult, listing,
                 lpc, xrequests, refresh,
                 bootvars>>

\* open(voice_file_path, 'w') raises
OpenVoiceFileRaises(j) ==
  /\ xpc[j] = "open"
  /\ ExtractRaises(j)
  /\ UNCHANGED <<now, files, voice_dir, callvars, xname, xaudio, xmodel, listing,
                 lpc, xrequests, refresh,
                 bootvars>>

\* json.dump(voice_model, f, indent=2) and the close of the file: the text is
\* written at the start of the file; return True
DumpVoiceModel(j) ==
  /\ xpc[j] = "dump"
  /\ voice_dir' = [voice_dir EXCEPT ![xname[j]] = WriteAt(@, Dump(xmodel[j]))]
  /\ xpc' = [xpc EXCEPT ![j] = "done"]
  /\ xresult' = [xresult EXCEPT ![j] = TRUE]
  /\ UNCHANGED <<now, files, callvars, xname, xaudio, xmodel, listing, lpc, xrequests, refresh,
                 bootvars>>

\* the write raises after n blocks of the text
DumpRaises(j, n) ==
  /\ xpc[j] = "dump"
  /\ n < Len(Dump(xmodel[j]))
  /\ voice_dir' = [voice_dir EXCEPT ![xname[j]] = WriteAt(@, Prefix(Dump(xmodel[j]), n))]
  /\ ExtractRaises(j)
  /\ UNCHANGED <<now, files, callvars, xname, xaudio, xmodel, listing, lpc, xrequests, refresh,
                 bootvars>>

\* list_available_voices returns the list it built from os.listdir(voice_dir)
ListAvailableVoices ==
  /\ listing' = ListVoices(voice_dir)
  /\ lpc' = "returned"
  /\ UNCHANGED <<now, files, voice_dir, callvars, xpc, xname, xaudio, xmodel,
                 xresult, xrequests, refresh,
                 bootvars>>

\* the steps of extract_voice call j inside its try block
\* faulty variant: voices[0] is taken without looking at the list
RefreshOutcomeUnguarded(voices) ==
  IF voices = <<>>
    THEN [status |-> "raised", choices |-> <<>>, value |-> None, message |-> ""]
    ELSE [status |-> "returned", choices |-> voices, value |-> voices[1],
          message |-> "Found cloned voices."]

\* what refresh_voices returns for the list voices: the dropdown update and
\* the message
RefreshOutcome(voices) ==
  IF voices # <<>>
    THEN [status |-> "returned", choices |-> voices, value |-> voices[1],
          message |-> "Found cloned voices."]
    ELSE [status |-> "returned", choices |-> <<>>, value |-> None,
          message |-> "No cloned voices found. Clone a voice first."]

\* app.refresh_voices(): lists the voices and returns the dropdown update
RefreshVoices ==
  /\ listing' = ListVoices(voice_dir)
  /\ lpc' = "returned"
  /\ refresh' = RefreshOutcome(ListVoices(voice_dir))
  /\ UNCHANGED <<now, files, voice_dir, callvars, xpc, xname, xaudio, xmodel,
                 xresult, xrequests, bootvars>>

RunExtract(j) ==
  \/ ReadAudio(j)
  \/ ReadAudioRaises(j)
  \/ OpenVoiceFile(j)
  \/ OpenVoiceFileRaises(j)
  \/ DumpVoiceModel(j)
  \/ \E n \in 0..MaxBlocks : DumpRaises(j, n)

\* os.listdir(self.voice_dir) raises: list_available_voices has no try block
ListRaises ==
  /\ lpc' = "raised"
  /\ UNCHANGED <<now, files, voice_dir, callvars, xpc, xname, xaudio, xmodel,
                 xresult, listing, xrequests, refresh,
                 bootvars>>

\* os.makedirs(output_dir, exist_ok=True) raises at the entry of
\* generate_speech, before its try block
GenerateSpeechRaises(c, t, m) ==
  /\ pc[c] = "idle"
  /\ Enter(c, "tts", t, None, m, NonePath, "Raised")
  /\ UNCHANGED <<voice_dir, found, payload, ui>>

\* os.makedirs(output_dir, exist_ok=True) raises at the entry of
\* generate_speech_with_voice, before its try block
GenerateSpeechWithVoiceRaises(c, t, v, m) ==
  /\ pc[c] = "idle"
  /\ Enter(c, "clone", t, v, m, NonePath, "Raised")
  /\ UNCHANGED <<voice_dir, found, payload, ui>>

\* SesameTTS() and VoiceCloning() are constructed
Construct ==
  /\ boot = "start"
  /\ boot' = Construction(ApiToken(credential))
  /\ UNCHANGED <<now, files, voice_dir, callvars, storevars, credential>>

\* call c is made on the client objects, its parameters drawn from the texts T
\* and the retry limits M
Start(c, T, M) ==
  \/ \E t \in T, m \in M : GenerateSpeech(c, t, m) /\ UNCHANGED ui
  \/ \E t \in T, v \in VoiceNames, m \in M :
       GenerateSpeechWithVoice(c, t, v, m) /\ UNCHANGED ui

\* call c is made by a handler of the UI
StartApp(c, T) ==
  \/ \E t \in T : AppGenerateSpeech(c, t)
  \/ \E t \in T, v \in VoiceNames : AppGenerateSpeechWithClonedVoice(c, t, v)

\* the steps of call c inside the retry loop
Run(c) ==
  \/ PostRaises(c)
  \/ \E s \in StatusCodes, b \in Bodies : PostReturns(c, s, b)
  \/ Sleep(c)
  \/ OpenFile(c)
  \/ OpenRaises(c)
  \/ WriteFile(c)
  \/ \E n \in 0..MaxBody : WriteRaises(c, n)

\* what happens around the calls: time passes, voices are extracted
Environment ==
  \/ Tick
  \/ \E a \in AudioFiles, v \in VoiceNames,
        outcome \in {"no_audio", "open_raises", "saved", "dump_raises"} :
       ExtractVoice(a, v, outcome)

\* one synthesis call, with every text and every retry limit
Next ==
  \/ Environment
  \/ Start(1, Texts, 0..MaxRetriesBound)
  \/ StartApp(1, Texts)
  \/ Run(1)
  \/ AppReturn(1)

Spec == Init /\ [][Next]_vars

\* the thread of a call keeps running: each request, sleep and write returns
FairSpec == Spec /\ WF_vars(Run(1))

\* two synthesis calls in two threads, with a non-empty text and a small retry limit
NextPair ==
  \/ Environment
  \/ \E c \in Calls : Start(c, {"hi"}, PairRetries)
  \/ \E c \in Calls : Run(c)

SpecPair == Init /\ [][NextPair]_vars

\* one synthesis call and listings, the directories failing too
NextFaults ==
  \/ Next
  \/ \E t \in Texts, m \in 0..MaxRetriesBound : GenerateSpeechRaises(1, t, m)
  \/ \E t \in Texts, v \in VoiceNames, m \in 0..MaxRetriesBound :
       GenerateSpeechWithVoiceRaises(1, t, v, m)
  \/ ListAvailableVoices
  \/ ListRaises

SpecFaults == Init /\ [][NextFaults]_vars

\* the program from its start: the client objects are constructed, and calls
\* are made on them once they exist
NextBoot ==
  \/ Construct
  \/ boot = "ready" /\ Next

SpecBoot == InitBoot /\ [][NextBoot]_vars

\* the voice profile store: two extract_voice calls in two threads, made on the
\* store or by the UI handler, and listings
NextStore ==
  \/ Tick
  \/ \E j \in Jobs, a \in StoreAudioFiles, v \in StoreNames : ExtractVoiceCall(j, a, v)
  \/ \E j \in Jobs, a \in StoreAudioFiles \cup {None}, v \in StoreNames :
       AppCloneVoice(j, a, v)
  \/ \E j \in Jobs : RunExtract(j)
  \/ ListAvailableVoices
  \/ RefreshVoices

SpecStore == Init /\ [][NextStore]_vars

\* no extract_voice call is under way
Quiet == \A j \in Jobs : xpc[j] \in {"idle", "done"}

\* the voice profile store used by one thread: an extract_voice call starts
\* when the one before has returned
NextStoreSeq ==
  \/ Tick
  \/ \E j \in Jobs, a \in StoreAudioFiles, v \in StoreNames :
       Quiet /\ ExtractVoiceCall(j, a, v)
  \/ \E j \in Jobs, a \in StoreAudioFiles \cup {None}, v \in StoreNames :
       Quiet /\ AppCloneVoice(j, a, v)
  \/ \E j \in Jobs : RunExtract(j)

SpecStoreSeq == Init /\ [][NextStoreSeq]_vars

\* one synthesis call with the stored profile, made on the client or by the
\* UI handler
NextPayload ==
  \/ \E t \in Texts, m \in PairRetries :
       GenerateSpeechWithVoice(1, t, "alice", m) /\ UNCHANGED ui
  \/ \E t \in Texts : AppGenerateSpeechWithClonedVoice(1, t, "alice")
  \/ Run(1)
  \/ AppReturn(1)

SpecPayload == InitPayload /\ [][NextPayload]_vars

\* one synthesis call made on a client with a small, zero or negative max_retries
NextLow ==
  \/ Environment
  \/ Start(1, Texts, LowRetries)
  \/ Run(1)

SpecLow == Init /\ [][NextLow]_vars

\* a synthesis with the voice alice in one thread while an extract_voice call
\* that meets no error saves alice again in another
NextReader ==
  \/ Tick
  \/ \E a \in AudioOnDisk : ExtractVoiceCall(1, a, "alice")
  \/ ReadAudio(1)
  \/ OpenVoiceFile(1)
  \/ DumpVoiceModel(1)
  \/ \E m \in PairRetries : GenerateSpeechWithVoice(1, "hi", "alice", m) /\ UNCHANGED ui
  \/ Run(1)

SpecReader == InitReader /\ [][NextReader]_vars

(* ------------------------------- claims -------------------------------- *)

\* every entry of the log h is one of E
OnlyOf(h, E) == \A i \in DOMAIN h : h[i] \in E

\* the waits 2^1, ..., 2^n
Backoffs(n) == [i \in 1..n |-> 2 ^ i]

\* the sleeps made when n attempts have failed and the call is at place p: the
\* sleep that follows the n-th failure is made when the call is back at the request
SleepsDone(p, n) == IF p = "request" THEN n ELSE n - 1

\* C1: when every attempt of a call is answered 503, the call makes exactly
\* max_retries requests, sleeps 2^1, ..., 2^(max_retries-1) between them, does
\* not sleep after the last one, and returns None.
C1_AllUnavailable ==
  \A c \in Calls :
    (hist[c] # <<>> /\ OnlyOf(hist[c], {"503"})) =>
      /\ requests[c] = Len(hist[c])
      /\ requests[c] <= max_retries[c]
      /\ sleeps[c] = Backoffs(SleepsDone(pc[c], requests[c]))
      /\ pc[c] \in Terminal =>
           /\ requests[c] = max_retries[c]
           /\ sleeps[c] = Backoffs(max_retries[c] - 1)
           /\ pc[c] = "Failed"
           /\ result[c] = NonePath

C1_Witness ==
  \E c \in Calls :
    /\ pc[c] = "Failed"
    /\ max_retries[c] = 3
    /\ hist[c] = <<"503", "503", "503">>
    /\ sleeps[c] = <<2, 4>>

\* C2: a response whose status is neither 200 nor 503 is the last attempt of the
\* call: the call returns None at once, with no sleep and no request after it,
\* whatever max_retries is and however many failures were retried before.
C2_RejectedNotRetried ==
  \A c \in Calls : \A i \in DOMAIN hist[c] :
    hist[c][i] = "other" =>
      /\ i = Len(hist[c])
      /\ requests[c] = i
      /\ Len(sleeps[c]) = i - 1
      /\ pc[c] = "Failed"
      /\ result[c] = NonePath

C2_Witness ==
  \E c \in Calls :
    /\ pc[c] = "Failed"
    /\ max_retries[c] = 3
    /\ hist[c] = <<"503", "other">>
    /\ requests[c] = 2

\* C3: when the endpoint answers 503 k times (k < max_retries) and then 200, the
\* call makes exactly k+1 requests and returns its output path: after k < max_retries
\* answers of 503 the call goes on to another request, and the 200 ends it.
C3_SucceedsAfterRetries ==
  \A c \in Calls :
    LET n == Len(hist[c]) IN
      /\ (n > 0 /\ OnlyOf(hist[c], {"503"}) /\ n < max_retries[c]) =>
           pc[c] \in {"sleep", "request"}
      /\ (n > 0 /\ hist[c][n] = "200" /\ OnlyOf(SubSeq(hist[c], 1, n - 1), {"503"})) =>
           /\ n - 1 < max_retries[c]
           /\ requests[c] = n
           /\ pc[c] \in {"open", "write", "Succeeded"}
           /\ pc[c] = "Succeeded" => result[c] = output_path[c] /\ result[c] # NonePath

C3_Witness ==
  \E c \in Calls :
    /\ pc[c] = "Succeeded"
    /\ hist[c] = <<"503", "200">>
    /\ requests[c] = 2
    /\ result[c] = output_path[c]

\* C4: an exception of the request counts like a 503: over every sequence of
\* 503 answers and exceptions, each one takes one unit of the retry counter and
\* is followed by the same backoff, a call never makes more than max_retries
\* requests, and it returns None once the counter reaches max_retries.
C4_ExceptionLike503 ==
  \A c \in Calls :
    /\ requests[c] <= max_retries[c]
    /\ (hist[c] # <<>> /\ OnlyOf(hist[c], {"503", "exc"})) =>
         /\ retries[c] = Len(hist[c])
         /\ requests[c] = Len(hist[c])
         /\ sleeps[c] = Backoffs(SleepsDone(pc[c], retries[c]))
         /\ IF retries[c] < max_retries[c]
              THEN pc[c] \in {"sleep", "request"}
              ELSE pc[c] = "Failed" /\ result[c] = NonePath

C4_Witness ==
  \E c \in Calls :
    /\ pc[c] = "Failed"
    /\ hist[c] = <<"exc", "503", "exc">>
    /\ requests[c] = 3
    /\ sleeps[c] = <<2, 4>>

\* C5: a call with the empty text makes no request.
C5_EmptyTextNoRequest ==
  \A c \in Calls : text[c] = "" => requests[c] = 0

\* C6: the file at the path a call returned holds exactly the body of the 200
\* response the call received.
C6_FileHoldsBody ==
  \A c \in Calls :
    pc[c] = "Succeeded" => files[result[c]] = File(response[c].content)

\* C7: two calls that both succeeded returned two different paths.
C7_DistinctPaths ==
  \A c, d \in Calls :
    (c # d /\ pc[c] = "Succeeded" /\ pc[d] = "Succeeded") => result[c] # result[d]

\* C8: the file at a path that a call returned holds the whole body of a 200
\* response, never a part of one.
C8_ReturnedFileComplete ==
  \A c \in Calls :
    pc[c] = "Succeeded" =>
      files[result[c]].exists /\ files[result[c]].bytes \in Bodies

\* C9: when a call has returned None, no file exists at its output path.
C9_NoArtifactOnFailure ==
  \A c \in Calls :
    (pc[c] = "Failed" /\ output_path[c] # NonePath) => ~files[output_path[c]].exists

\* C10: every call that was started ends, as Succeeded with its path returned or
\* as Failed with None returned, and a call that has ended stays as it ended.
C10_Terminates ==
  /\ \A c \in Calls : (pc[c] # "idle") ~> (pc[c] \in Terminal)
  /\ [](\A c \in Calls : /\ pc[c] = "Succeeded" => result[c] = output_path[c] /\ result[c] # NonePath
                         /\ pc[c] = "Failed" => result[c] = NonePath)
  /\ [][\A c \in Calls : pc[c] \in Terminal => pc'[c] = pc[c] /\ result'[c] = result[c]]_vars

C10_Witness ==
  \E c \in Calls :
    /\ pc[c] = "Succeeded"
    /\ max_retries[c] = 3
    /\ hist[c] = <<"exc", "ioerr", "200">>

\* the number of entries of the list l that are the name v
Occurrences(l, v) == Cardinality({i \in DOMAIN l : l[i] = v})

\* C11: a listing made when an extract_voice call of the name n has returned
\* True holds n exactly once, for every name n and however many extract_voice
\* calls of that name have returned.
C11_ListedOnce ==
  [][ListAvailableVoices =>
       \A j \in Jobs :
         (xpc[j] = "done" /\ xresult[j]) => Occurrences(listing', xname[j]) = 1]_vars

\* C12: a generate_speech_with_voice call whose voice model file does not exist
\* returns None and makes no request, at its entry and ever after.
C12_MissingProfileNoRequest ==
  \A c \in Calls :
    (op[c] = "clone" /\ pc[c] # "idle" /\ ~found[c]) =>
      /\ pc[c] = "Failed"
      /\ result[c] = NonePath
      /\ requests[c] = 0
      /\ hist[c] = <<>>
      /\ sleeps[c] = <<>>

C12_Witness ==
  \E c \in Calls :
    /\ op[c] = "clone"
    /\ text[c] = "hi"
    /\ max_retries[c] = 2
    /\ ~voice_dir[voice_name[c]].exists
    /\ ~found[c]
    /\ pc[c] = "Failed"
    /\ requests[c] = 0

\* the loop of generate_speech after the attempts h with the limit m: the retry
\* counter, the sleeps made before the last attempt, and the place the last
\* attempt leads to ("sleep": a sleep is due; "open": the body is to be saved)
RECURSIVE TtsAfter(_, _)
TtsAfter(h, m) ==
  IF h = <<>> THEN [retries |-> 0, pc |-> WhileTest(0, m), sleeps |-> <<>>]
  ELSE LET prev == TtsAfter(SubSeq(h, 1, Len(h) - 1), m)
           e == h[Len(h)]
           branch == CASE e = "503" -> StatusBranch(503, prev.retries, m)
                       [] e = "200" -> StatusBranch(200, prev.retries, m)
                       [] e = "other" -> StatusBranch(404, prev.retries, m)
                       [] OTHER -> ExceptBranch(prev.retries, m)
       IN [retries |-> branch.retries,
           pc |-> branch.pc,
           sleeps |-> IF prev.pc = "sleep"
                        THEN Append(prev.sleeps, WaitTime(prev.retries))
                        ELSE prev.sleeps]

\* call c is where generate_speech is after the same attempts with the same
\* limit: as many requests, the same sleeps, the same outcome
LikeTts(c) ==
  LET e == TtsAfter(hist[c], max_retries[c]) IN
    /\ requests[c] = Len(hist[c])
    /\ retries[c] = e.retries
    /\ CASE e.pc = "sleep" ->
              \/ pc[c] = "sleep" /\ sleeps[c] = e.sleeps
              \/ /\ pc[c] = WhileTest(e.retries, max_retries[c])
                 /\ sleeps[c] = Append(e.sleeps, WaitTime(e.retries))
         [] e.pc = "open" ->
              /\ pc[c] \in {"open", "write", "Succeeded"}
              /\ sleeps[c] = e.sleeps
              /\ pc[c] = "Succeeded" => result[c] = output_path[c] /\ result[c] # NonePath
         [] OTHER ->
              /\ pc[c] = e.pc
              /\ sleeps[c] = e.sleeps
              /\ result[c] = NonePath

C14_ListingIsStore ==
  [][(ListAvailableVoices /\ Quiet) =>
       {listing'[i] : i \in DOMAIN listing'} = {v \in StoreNames : voice_dir[v].exists}]_vars

\* C15: when two extract_voice calls of the same non-empty name have both
\* returned True, the voice model file of that name holds the whole text of the
\* model of one of the two.
C15_LastWriterWins ==
  \A j, k \in Jobs :
    (j # k /\ xname[j] = xname[k] /\ xname[j] # ""
       /\ xpc[j] = "done" /\ xresult[j] /\ xpc[k] = "done" /\ xresult[k]) =>
      voice_dir[xname[j]] \in {VoiceFile(xmodel[j]), VoiceFile(xmodel[k])}

\* C16: every step of an extract_voice call whose audio file does not exist
\* leaves the voice_models directory as it was and ends the call with False;
\* and a call that ends while opening or writing the voice model file without
\* having written the whole text ends with False.
C16_ExtractFailures ==
  [][\A j \in Jobs :
       /\ (xpc'[j] # xpc[j] /\ xaudio'[j] \notin AudioOnDisk) =>
            /\ voice_dir' = voice_dir
            /\ xpc'[j] = "done"
            /\ xresult'[j] = FALSE
       /\ (xpc[j] \in {"read", "open", "dump"} /\ xpc'[j] = "done"
             /\ voice_dir'[xname[j]] # WriteAt(voice_dir[xname[j]], Dump(xmodel[j]))) =>
            xresult'[j] = FALSE]_vars

C16_Witness ==
  \E j, k \in Jobs :
    /\ xpc[j] = "done" /\ xaudio[j] = "gone.wav" /\ xname[j] = "alice" /\ ~xresult[j]
    /\ xpc[k] = "done" /\ xaudio[k] = "s1.wav" /\ xname[k] = "alice" /\ ~xresult[k]
    /\ voice_dir["alice"] = File(Prefix(Dump(xmodel[k]), 2))

\* C17: no voice model file is written for the empty name, and no listing
\* holds the empty name.
C17_EmptyNameRejected ==
  /\ ~voice_dir[""].exists
  /\ Occurrences(listing, "") = 0

\* C18: no synthesis call and no listing ends with an exception that reaches
\* the caller.
C18_NoEscape ==
  /\ \A c \in Calls : pc[c] # "Raised"
  /\ lpc # "raised"

\* the class of the failure of a call that returned None
FailureClass(c) ==
  IF text[c] = "" THEN "invalid input"
  ELSE IF hist[c] # <<>> /\ hist[c][Len(hist[c])] \in {"503", "exc"}
    THEN "service unavailable"
  ELSE "other"

\* what the caller of call c sees: the value the client returned and the
\* message the UI handler shows for it
Visible(c) ==
  [value |-> result[c],
   message |-> AppMessage(op[c], text[c], voice_name[c], result[c])]

\* C19: two calls that returned None for failures of different classes show
\* different results to their callers.
C19_ClassesDistinguished ==
  \A c, d \in Calls :
    (pc[c] = "Failed" /\ pc[d] = "Failed" /\ FailureClass(c) # FailureClass(d)) =>
      Visible(c) # Visible(d)

\* C20: when neither the api_token argument nor HF_API_TOKEN holds a token,
\* the construction raises: the client objects never exist, no call is made and
\* no request is issued; and no request is issued before the objects exist.
C20_NoCredentialNoClient ==
  /\ (ApiToken(credential) = "" /\ boot # "start") => boot = "exit"
  /\ boot # "ready" =>
       \A c \in Calls : pc[c] = "idle" /\ requests[c] = 0 /\ hist[c] = <<>>

C20_Witness ==
  /\ credential = [arg |-> "", env |-> ""]
  /\ boot = "exit"
  /\ \A c \in Calls : requests[c] = 0

\* C21: a call issues a request only from the place of the request, one at a
\* time, when every earlier attempt has its outcome and the sleep after every
\* earlier attempt is over; the outcome of the request is there when
\* requests.post has returned or raised.
C21_SequentialRetries ==
  [][\A c \in Calls :
       requests'[c] # requests[c] =>
         /\ pc[c] = "request"
         /\ requests'[c] = requests[c] + 1
         /\ Len(hist[c]) = requests[c]
         /\ Len(sleeps[c]) = requests[c]
         /\ Len(hist'[c]) = requests'[c]
         /\ sleeps'[c] = sleeps[c]]_vars

C21_Witness ==
  \E c \in Calls :
    /\ op[c] = "tts"
    /\ requests[c] = 3
    /\ hist[c] = <<"exc", "exc", "503">>
    /\ sleeps[c] = <<2, 4>>
    /\ pc[c] = "Failed"

\* the failures among the attempts h that the loop goes round for
NumFailures(h) == Cardinality({i \in DOMAIN h : h[i] \in {"503", "exc", "ioerr"}})

\* C25: a call has slept 2^1, ..., 2^k and nothing else, where k counts the
\* failures (503 answers and exceptions) that were followed by another turn of
\* the loop: every failure but one that exhausted max_retries; there is no
\* sleep before the first request, after a 200 or after another status.
C25_BackoffPowers ==
  \A c \in Calls :
    LET n == NumFailures(hist[c])
        last == IF hist[c] = <<>> THEN "none" ELSE hist[c][Len(hist[c])]
    IN /\ retries[c] = n
       /\ n <= max_retries[c]
       /\ sleeps[c] = Backoffs(IF last \in {"none", "200", "other"} \/ pc[c] = "request"
                                THEN n ELSE n - 1)
       /\ (pc[c] = "sleep") => (n < max_retries[c] /\ last \in {"503", "exc", "ioerr"})
       /\ (pc[c] = "Failed" /\ last \in {"503", "exc", "ioerr"}) => n = max_retries[c]

C25_Witness ==
  \E c \in Calls :
    /\ op[c] = "tts"
    /\ max_retries[c] = 3
    /\ hist[c] = <<"503", "exc", "other">>
    /\ sleeps[c] = <<2, 4>>
    /\ pc[c] = "Failed"

\* C26: a failure to write the file of a 200 response is the last attempt of
\* the call: the call returns None with no further request.
C26_WriteFailureNotRetried ==
  \A c \in Calls : \A i \in DOMAIN hist[c] :
    hist[c][i] = "ioerr" => (i = Len(hist[c]) /\ pc[c] = "Failed")

\* the value of key k in the request parameters that the text b of a profile
\* calls for: the value stored under "parameters", or the neutral default
Expected(b, k) ==
  LET stored == {i \in DOMAIN b : b[i].k = "parameters" /\ k \in DOMAIN b[i].p} IN
    IF stored = {} THEN (IF k = "pace" THEN 1 ELSE 0)
    ELSE b[CHOOSE i \in stored : TRUE].p[k]

\* C22: a generate_speech_with_voice call that found a profile holding the
\* text of a model enters the retry loop, whatever keys the profile lacks,
\* and every request it sends carries the text and the parameters
\* voice_preset (the voice name), pitch, timbre and pace, each the value
\* stored in the profile or, when the key or the whole "parameters" mapping
\* is missing, the default 0, 0 and 1
C22_ProfileParameters ==
  \A c \in Calls :
    (op[c] = "clone" /\ found[c] /\ Loadable(voice_dir[voice_name[c]])) =>
      LET b == voice_dir[voice_name[c]].bytes IN
        /\ pc[c] \notin {"idle", "Raised"}
        /\ pc[c] = "Failed" => requests[c] > 0
        /\ payload[c] =
             [inputs |-> text[c],
              parameters |-> <<[voice_preset |-> voice_name[c],
                               pitch |-> Expected(b, "pitch"),
                               timbre |-> Expected(b, "timbre"),
                               pace |-> Expected(b, "pace")]>>]

\* a request was sent for a profile that stores a pitch and nothing else, and
\* one for a profile without "parameters"
C22_Witness ==
  \E c \in Calls :
    /\ op[c] = "clone"
    /\ requests[c] > 0
    /\ voice_dir["alice"] =
         VoiceFile([name |-> "alice", created |-> 0, source_file |-> "s1.wav",
                    parameters |-> [pitch |-> 3]])
    /\ payload[c].parameters = <<[voice_preset |-> "alice", pitch |-> 3,
                                  timbre |-> 0, pace |-> 1]>>
    /\ pc[c] = "Succeeded"

EmptyStore == \A v \in StoreNames : ~voice_dir[v].exists

\* C24: while voice_models holds no file, list_available_voices returns the
\* empty list and raises nothing, and refresh_voices returns an empty
\* dropdown with no value and the message that no voice was found
C24_EmptyStoreEmptyList ==
  EmptyStore =>
    /\ lpc # "idle" => (lpc = "returned" /\ listing = <<>>)
    /\ refresh.status # "idle" =>
         refresh = [status |-> "returned", choices |-> <<>>, value |-> None,
                    message |-> "No cloned voices found. Clone a voice first."]

\* the store is still empty after an extraction failed, and it was listed by
\* refresh_voices
C24_Witness ==
  /\ EmptyStore
  /\ \E j \in Jobs : xpc[j] = "done" /\ ~xresult[j]
  /\ lpc = "returned"
  /\ listing = <<>>
  /\ refresh.status = "returned"

\* C30: extract_voice sends no HTTP request, at any step and whatever it
\* returns: no request of its own and none counted on a synthesis call
C30_ExtractSendsNothing ==
  /\ \A j \in Jobs : xrequests[j] = 0
  /\ \A c \in Calls : requests[c] = 0

\* one extract_voice call has returned True and one False, after reading the
\* audio and building the payload
C30_Witness ==
  \E j, k \in Jobs :
    /\ xpc[j] = "done" /\ xresult[j]
    /\ xpc[k] = "done" /\ ~xresult[k] /\ xmodel[k] # NoModel
    /\ xrequests[j] = 0 /\ xrequests[k] = 0

\* C27: with the extract_voice calls made one after the other, when one call
\* has saved a profile and another call on the same name has failed, the
\* voice model file still holds the whole text of the saved profile
C27_FailureKeepsProfile ==
  \A j, k \in Jobs :
    (j # k /\ xname[j] = xname[k] /\ xname[j] # ""
       /\ xpc[j] = "done" /\ xresult[j]
       /\ xpc[k] = "done" /\ ~xresult[k]) =>
      voice_dir[xname[j]] = VoiceFile(xmodel[j])

\* C28: with the extract_voice calls made one after the other, when two calls
\* on the same name have both saved a profile, the voice model file holds
\* the text of the later one alone: its name, its creation time, its source
\* file and the parameters pitch 0, timbre 0, pace 1, and nothing after it
C28_OverwriteNoMerge ==
  \A j, k \in Jobs :
    (xname[j] = xname[k]
       /\ xpc[j] = "done" /\ xresult[j]
       /\ xpc[k] = "done" /\ xresult[k]
       /\ xmodel[j].created < xmodel[k].created) =>
      voice_dir[xname[k]] =
        VoiceFile([name |-> xname[k], created |-> xmodel[k].created,
                   source_file |-> xaudio[k],
                   parameters |-> [pitch |-> 0, timbre |-> 0, pace |-> 1]])

\* a profile of alice made from the longer source path was replaced by one
\* made from the shorter
C28_Witness ==
  \E j, k \in Jobs :
    /\ xname[j] = "alice" /\ xname[k] = "alice"
    /\ xaudio[j] = "sample2.wav" /\ xaudio[k] = "s1.wav"
    /\ xpc[j] = "done" /\ xresult[j]
    /\ xpc[k] = "done" /\ xresult[k]
    /\ xmodel[j].created < xmodel[k].created
    /\ voice_dir["alice"].exists

\* C29: every step of a generate_speech_with_voice call, from its entry to
\* any of its outcomes, and every list_available_voices call leave each file
\* of voice_models as it was: none created, changed or removed
C29_ReadsLeaveStore ==
  [][((\E c \in Calls : op'[c] = "clone" /\ callvars' # callvars)
        \/ listing' # listing \/ lpc' # lpc) =>
       voice_dir' = voice_dir]_vars

\* the profile of alice is on disk as saved, after a synthesis with it used
\* up its retries and a listing returned it
C29_Witness ==
  /\ \E a \in AudioFiles, t \in 0..MaxClock :
       voice_dir["alice"] = VoiceFile(VoiceModel("alice", a, t))
  /\ \E c \in Calls :
       /\ op[c] = "clone" /\ found[c]
       /\ pc[c] = "Failed"
       /\ requests[c] = max_retries[c]
       /\ requests[c] > 1
  /\ lpc = "returned"
  /\ listing = <<"alice">>

\* the number of 200 responses a call has received: those that led to the
\* file being written and those whose file could not be written
Received200(h) == Cardinality({i \in DOMAIN h : h[i] \in {"200", "ioerr"}})

\* C33: a call that returned a path received exactly one 200 response, as the
\* response to its last request
C33_PathOnlyAfterOne200 ==
  \A c \in Calls :
    result[c] # NonePath =>
      /\ hist[c] # <<>>
      /\ hist[c][Len(hist[c])] = "200"
      /\ Received200(hist[c]) = 1

\* C34: a synthesis call, of either kind, made with max_retries <= 0 is over
\* at once with the failure result: it has sent no request, has not slept,
\* has met no response or exception and has written no file
C34_NoAttemptNoRequest ==
  \A c \in Calls :
    (pc[c] # "idle" /\ max_retries[c] <= 0) =>
      /\ pc[c] = "Failed"
      /\ result[c] = NonePath
      /\ requests[c] = 0
      /\ sleeps[c] = <<>>
      /\ hist[c] = <<>>
      /\ retries[c] = 0
      /\ \A path \in Paths : ~files[path].exists

\* a synthesis with a voice whose profile was found and loads, called with a
\* negative max_retries, has returned
C34_Witness ==
  \E c \in Calls :
    /\ op[c] = "clone" /\ found[c] /\ Loadable(voice_dir[voice_name[c]])
    /\ max_retries[c] = -1
    /\ pc[c] = "Failed"
    /\ text[c] = "hi"

\* C31: a generate_speech_with_voice call on a voice whose profile is saved,
\* made while an extract_voice call that meets no error saves the profile
\* again, finds the file and loads a whole voice model from it, the old or
\* the new one: it builds its payload and goes on to its first request
C31_ReaderSeesWholeProfile ==
  \A c \in Calls :
    (op[c] = "clone" /\ pc[c] # "idle") =>
      /\ found[c]
      /\ payload[c] = ClonePayload(text[c], voice_name[c], VoiceModel("alice", "s1.wav", 0))
      /\ requests[c] = 0 => pc[c] = "request"

\* C32: a listing made when no extract_voice call is under way holds the name
\* of every call that returned True with a non-empty name, as it was given,
\* and every name it holds is one whose voice model file
\* generate_speech_with_voice finds
C32_NamesRoundTrip ==
  [][(ListAvailableVoices /\ Quiet) =>
       /\ \A j \in Jobs :
            (xpc[j] = "done" /\ xresult[j] /\ xname[j] # "") =>
              \E i \in DOMAIN listing' : listing'[i] = xname[j]
       /\ \A i \in DOMAIN listing' : voice_dir[listing'[i]].exists]_vars

====
